---- MODULE Spec2Model ----
(***************************************************************************)
(* A model of the DefId translation machinery of rust-semverver            *)
(* (src/translate.rs): TranslationContext and InferenceCleanupFolder.      *)
(*                                                                         *)
(* The translation functions are pure; the state machine draws a           *)
(* translation context (direction, translate_params, id mapping) in Init   *)
(* and each action applies one public operation to one input, recording    *)
(* the operation, its input and its outcome.                               *)
(***************************************************************************)
EXTENDS Naturals, Sequences, FiniteSets, TLC

VARIABLES
    target,            \* "new" (target_new) or "old" (target_old)
    translate_params,  \* TranslationContext.translate_params
    unmapped,          \* names of the source crate's items that have no counterpart
    foreign_mapped,    \* whether the mapping passes through ids outside the source crate
    op,                \* the operation last called
    arg,               \* its input
    res                \* its outcome

vars == <<target, translate_params, unmapped, foreign_mapped, op, arg, res>>

-----------------------------------------------------------------------------
(* Bounds of the model.                                                    *)

\* Largest number of source-crate names without a counterpart in one mapping.
MaxUnmapped == 2

\* Longest predicate list handed to translate_predicates / translate_param_env.
MaxPreds == 2

-----------------------------------------------------------------------------
(* Option values and the outcome of a call that panics.                    *)

None == [tag |-> "None"]

Some(v) == [tag |-> "Some", val |-> v]

Panic == [tag |-> "Panic"]

-----------------------------------------------------------------------------
(* DefIds.  A DefId names a declaration of one crate: the old crate, the   *)
(* new crate, or any other crate ("ext").                                  *)

Id(c, n) == [crate |-> c, name |-> n]

NoId == Id("none", "none")

\* DefId::local(CRATE_DEF_INDEX), the id the Dynamic arm uses for its error predicate.
CrateRootId == Id("local", "CRATE_DEF_INDEX")

-----------------------------------------------------------------------------
(* Regions, generic arguments, types and existential predicates.           *)

ReEarlyBound(d, i, n) == [rk |-> "ReEarlyBound", def_id |-> d, index |-> i, name |-> n]

BrNamed(d, n) == [brk |-> "BrNamed", def_id |-> d, name |-> n]

BrAnon == [brk |-> "BrAnon"]

ReFree(s, br) == [rk |-> "ReFree", scope |-> s, bound_region |-> br]

ReStatic == [rk |-> "ReStatic"]

ReVar == [rk |-> "ReVar"]

ReErased == [rk |-> "ReErased"]

LifetimeArg(r) == [gk |-> "Lifetime", region |-> r]

TypeArg(t) == [gk |-> "Type", ty |-> t]

Adt(d, s) == [kind |-> "Adt", def_id |-> d, substs |-> s]

Ref(r, t, m) == [kind |-> "Ref", region |-> r, ty |-> t, mutbl |-> m]

FnDef(d, s) == [kind |-> "FnDef", def_id |-> d, substs |-> s]

Dynamic(ps, r) == [kind |-> "Dynamic", preds |-> ps, region |-> r]

Projection(d, s) == [kind |-> "Projection", item_def_id |-> d, substs |-> s]

Opaque(d, s) == [kind |-> "Opaque", def_id |-> d, substs |-> s]

Param(i, n) == [kind |-> "Param", index |-> i, name |-> n]

Prim(n) == [kind |-> "Prim", name |-> n]

Infer(v) == [kind |-> "Infer", var |-> v]

TyError == [kind |-> "Error"]

\* The outcome of folding a type when the fold panics.
PanicTy == [kind |-> "PANIC"]

\* tcx.types.trait_object_dummy_self
trait_object_dummy_self == Infer("FreshTy0")

ExTrait(d, s) == [ek |-> "Trait", def_id |-> d, substs |-> s]

ExProjection(d, s, t) == [ek |-> "Projection", item_def_id |-> d, substs |-> s, term |-> t]

AutoTrait(d) == [ek |-> "AutoTrait", def_id |-> d]

TermTy(t) == [tk |-> "Ty", ty |-> t]

TermConst(c) == [tk |-> "Const", ct |-> c]

-----------------------------------------------------------------------------
(* The type database: the generics of the items of the three crates.       *)
(*   Abc, X        struct, no parameters                                   *)
(*   Def           struct Def<A>; the new crate's is Def<A, B = u8>        *)
(*   Tr            trait Tr<T> (Self at index 0)                           *)
(*   Assoc         associated type of Tr (inherits Self, T)                *)
(*   Fun           fn fun<'a, T, U>; the new crate's is fun<'a, U, T>      *)
(*   Impl, Meth    impl<A> ... { fn meth<B>() }; the new crate's method is  *)
(*                 meth<'a, B>                                             *)
(*   Opq           old: Opq<T>; new: Opq<'a, T>                            *)

ParamDef(c, k, i, n) == [kind |-> k, index |-> i, name |-> n, def_id |-> Id(c, n)]

Generics(p, hs, ps) == [parent |-> p, has_self |-> hs, params |-> ps]

generics_of(id) ==
    LET c == id.crate IN
    CASE id.name = "Def" ->
            Generics(NoId, FALSE,
                IF c = "new"
                THEN <<ParamDef(c, "Type", 0, "Def_A"), ParamDef(c, "Type", 1, "Def_B")>>
                ELSE <<ParamDef(c, "Type", 0, "Def_A")>>)
      [] id.name = "Tr" ->
            Generics(NoId, TRUE,
                <<ParamDef(c, "Type", 0, "Tr_Self"), ParamDef(c, "Type", 1, "Tr_T")>>)
      [] id.name = "Assoc" -> Generics(Id(c, "Tr"), TRUE, <<>>)
      [] id.name = "Fun" ->
            Generics(NoId, FALSE,
                IF c = "new"
                THEN <<ParamDef(c, "Lifetime", 0, "Fun_a"), ParamDef(c, "Type", 1, "Fun_U"),
                       ParamDef(c, "Type", 2, "Fun_T")>>
                ELSE <<ParamDef(c, "Lifetime", 0, "Fun_a"), ParamDef(c, "Type", 1, "Fun_T"),
                       ParamDef(c, "Type", 2, "Fun_U")>>)
      [] id.name = "Impl" -> Generics(NoId, FALSE, <<ParamDef(c, "Type", 0, "Impl_A")>>)
      [] id.name = "Meth" ->
            Generics(Id(c, "Impl"), FALSE,
                IF c = "new"
                THEN <<ParamDef(c, "Lifetime", 1, "Meth_a"), ParamDef(c, "Type", 2, "Meth_B")>>
                ELSE <<ParamDef(c, "Type", 1, "Meth_B")>>)
      [] id.name = "Opq" ->
            Generics(NoId, FALSE,
                IF c = "new"
                THEN <<ParamDef(c, "Lifetime", 0, "Opq_a"), ParamDef(c, "Type", 1, "Opq_T")>>
                ELSE <<ParamDef(c, "Type", 0, "Opq_T")>>)
      [] OTHER -> Generics(NoId, FALSE, <<>>)

\* The item that declares a type parameter.
ParamOwner(n) ==
    CASE n \in {"Def_A", "Def_B"} -> "Def"
      [] n \in {"Tr_Self", "Tr_T"} -> "Tr"
      [] n \in {"Fun_a", "Fun_T", "Fun_U"} -> "Fun"
      [] n = "Impl_A" -> "Impl"
      [] n \in {"Meth_a", "Meth_B"} -> "Meth"
      [] n \in {"Opq_a", "Opq_T"} -> "Opq"
      [] OTHER -> "none"

\* Every parameter an item's argument list has a position for: the parent's, then its own
\* (the order InternalSubsts::for_item fills them in).
RECURSIVE FullParams(_)
FullParams(id) ==
    LET g == generics_of(id) IN
    (IF g.parent = NoId THEN <<>> ELSE FullParams(g.parent)) \o g.params

\* tcx.type_of of a defaulted type parameter: the declared default (Def<A, B = u8>).
type_of(def_id) == Prim("u8")

\* tcx.mk_param_from_def for a type parameter.
mk_param_from_def(def) == Param(def.index, def.name)

\* ReEarlyBound(def.to_early_bound_region_data())
early_bound_region_of(def) == ReEarlyBound(def.def_id, def.index, def.name)

-----------------------------------------------------------------------------
(* The id mapping.                                                          *)

in_old_crate(id) == id.crate = "old"

in_new_crate(id) == id.crate = "new"

\* The items and parameters the two crates declare under the same name.
SharedNames ==
    {"Abc", "X", "Def", "Tr", "Assoc", "Fun", "Impl", "Meth", "Opq",
     "Def_A", "Tr_Self", "Tr_T", "Fun_a", "Fun_T", "Fun_U", "Impl_A", "Meth_B", "Opq_T"}

\* The counterpart of an id of crate `from` in crate `to`, if the mapping has one; an id
\* outside crate `from` is either passed through or has no entry (foreign_mapped).
Lookup(from, to, id) ==
    IF id.crate = from
    THEN IF id.name \in SharedNames /\ id.name \notin unmapped
         THEN Some(Id(to, id.name))
         ELSE None
    ELSE IF foreign_mapped THEN Some(id) ELSE None

get_new_id(id) == Lookup("old", "new", id)

get_old_id(id) == Lookup("new", "old", id)

\* IdMapping::get_type_param: the parameter definition registered for a type parameter id.
get_type_param(def_id) ==
    LET ps == generics_of(Id(def_id.crate, ParamOwner(def_id.name))).params
        i == CHOOSE j \in 1..Len(ps) : ps[j].def_id = def_id
    IN ps[i]

\* IdMapping::is_non_mapped_defaulted_type_param: Def_B exists in the new crate only.
is_non_mapped_defaulted_type_param(def_id) == def_id = Id("new", "Def_B")

-----------------------------------------------------------------------------
(* TranslationContext.                                                      *)

\* The function-pointer field needs_translation set by target_new / target_old.
needs_translation_fn(def_id) ==
    IF target = "new" THEN in_old_crate(def_id) ELSE in_new_crate(def_id)

\* The function-pointer field translate_orig set by target_new / target_old.
translate_orig_fn(def_id) ==
    IF target = "new" THEN get_new_id(def_id) ELSE get_old_id(def_id)

SrcCrate == IF target = "new" THEN "old" ELSE "new"

DstCrate == target

IndexMapOf(generics) ==
    LET tps == {i \in 1..Len(generics.params) : generics.params[i].kind = "Type"}
    IN [idx \in {generics.params[i].index : i \in tps} |->
            LET i == CHOOSE j \in tps : generics.params[j].index = idx
            IN generics.params[i].def_id]

\* Variant of construct_index_map that leaves out the parameters of the enclosing item.
construct_index_map_own(orig_def_id) == IndexMapOf(generics_of(orig_def_id))

\* The parent's entries overwrite an equal key (HashMap::insert order).
construct_index_map(orig_def_id) ==
    LET orig_generics == generics_of(orig_def_id)
        own == IndexMapOf(orig_generics)
        par == IF orig_generics.parent = NoId
               THEN <<>>
               ELSE IndexMapOf(generics_of(orig_generics.parent))
    IN [idx \in DOMAIN own \cup DOMAIN par |->
            IF idx \in DOMAIN par THEN par[idx] ELSE own[idx]]

needs_translation(def_id) == needs_translation_fn(def_id)

translate_orig(def_id) ==
    LET t == translate_orig_fn(def_id)
    IN IF t.tag = "Some" THEN t.val ELSE def_id

translate_region(region) ==
    IF ~translate_params
    THEN region
    ELSE CASE region.rk = "ReEarlyBound" ->
                [region EXCEPT !.def_id = translate_orig(@)]
           [] region.rk = "ReFree" ->
                [region EXCEPT
                    !.scope = translate_orig(@),
                    !.bound_region =
                        IF @.brk = "BrNamed"
                        THEN [@ EXCEPT !.def_id = translate_orig(@)]
                        ELSE @]
           [] OTHER -> region

-----------------------------------------------------------------------------
(* translate_orig_substs and the BottomUpFolder of translate.               *)
(* A value that is used more than once is handed to an operator as an       *)
(* argument.                                                                *)

RECURSIVE translate_ty(_, _)
RECURSIVE translate_orig_substs(_, _, _)
RECURSIVE for_item(_, _, _, _, _)

\* orig_substs.get(def.index as usize).map(|k| k.unpack())
SubstAt(orig_substs, index) ==
    IF index + 1 \in DOMAIN orig_substs THEN Some(orig_substs[index + 1]) ELSE None

HasLifetimeAt(orig_substs, index) ==
    index + 1 \in DOMAIN orig_substs /\ orig_substs[index + 1].gk = "Lifetime"

HasTypeAt(orig_substs, index) ==
    index + 1 \in DOMAIN orig_substs /\ orig_substs[index + 1].gk = "Type"

\* The closure's GenericParamDefKind::Lifetime arm: [arg, success].
LifetimeParamArg(def, orig_substs, success) ==
    IF ~success
    THEN [arg |-> LifetimeArg(early_bound_region_of(def)), success |-> FALSE]
    ELSE IF HasLifetimeAt(orig_substs, def.index)
    THEN [arg |-> LifetimeArg(translate_region(SubstAt(orig_substs, def.index).val.region)),
          success |-> TRUE]
    ELSE [arg |-> LifetimeArg(early_bound_region_of(def)), success |-> FALSE]

\* Variant of the Type arm that takes the default of a defaulted parameter before the
\* source argument.
TypeParamArg_default_first(index_map, target_def_id, def, orig_substs, success) ==
    IF ~success
    THEN [arg |-> TypeArg(mk_param_from_def(def)), success |-> FALSE]
    ELSE IF is_non_mapped_defaulted_type_param(def.def_id)
    THEN [arg |-> TypeArg(type_of(def.def_id)), success |-> TRUE]
    ELSE IF HasTypeAt(orig_substs, def.index)
    THEN [arg |-> TypeArg(translate_ty(index_map, SubstAt(orig_substs, def.index).val.ty)),
          success |-> TRUE]
    ELSE IF generics_of(target_def_id).has_self /\ def.index = 0
    THEN [arg |-> TypeArg(mk_param_from_def(def)), success |-> TRUE]
    ELSE [arg |-> TypeArg(mk_param_from_def(def)), success |-> FALSE]

\* Variant of the Type arm that does not look at the failure flag of earlier positions.
TypeParamArg_forgetful(index_map, target_def_id, def, orig_substs, success) ==
    IF HasTypeAt(orig_substs, def.index)
    THEN [arg |-> TypeArg(translate_ty(index_map, SubstAt(orig_substs, def.index).val.ty)),
          success |-> TRUE]
    ELSE IF is_non_mapped_defaulted_type_param(def.def_id)
    THEN [arg |-> TypeArg(type_of(def.def_id)), success |-> TRUE]
    ELSE IF generics_of(target_def_id).has_self /\ def.index = 0
    THEN [arg |-> TypeArg(mk_param_from_def(def)), success |-> TRUE]
    ELSE [arg |-> TypeArg(mk_param_from_def(def)), success |-> FALSE]

\* The closure's GenericParamDefKind::Type arm: [arg, success].
TypeParamArg(index_map, target_def_id, def, orig_substs, success) ==
    IF ~success
    THEN [arg |-> TypeArg(mk_param_from_def(def)), success |-> FALSE]
    ELSE IF HasTypeAt(orig_substs, def.index)
    THEN [arg |-> TypeArg(translate_ty(index_map, SubstAt(orig_substs, def.index).val.ty)),
          success |-> TRUE]
    ELSE IF is_non_mapped_defaulted_type_param(def.def_id)
    THEN [arg |-> TypeArg(type_of(def.def_id)), success |-> TRUE]
    ELSE IF generics_of(target_def_id).has_self /\ def.index = 0
    THEN [arg |-> TypeArg(mk_param_from_def(def)), success |-> TRUE]
    ELSE [arg |-> TypeArg(mk_param_from_def(def)), success |-> FALSE]

\* The closure handed to InternalSubsts::for_item, for one parameter of the target.
ParamArg(index_map, target_def_id, def, orig_substs, success) ==
    IF def.kind = "Lifetime"
    THEN LifetimeParamArg(def, orig_substs, success)
    ELSE TypeParamArg(index_map, target_def_id, def, orig_substs, success)

\* The argument list built so far with the closure's result r pushed, the success cell as
\* the closure left it, and whether the closure panicked.
Pushed(acc, r) ==
    [substs |-> Append(acc.substs, r.arg),
     success |-> r.success,
     panic |-> r.arg.gk = "Type" /\ r.arg.ty = [kind |-> "PANIC"]]

\* InternalSubsts::for_item with the closure of translate_orig_substs: one argument per
\* parameter of the target item, in order, threading the success cell.
for_item(index_map, target_def_id, orig_substs, defs, acc) ==
    IF defs = <<>> \/ acc.panic
    THEN acc
    ELSE for_item(index_map, target_def_id, orig_substs, Tail(defs),
            Pushed(acc, ParamArg(index_map, target_def_id, Head(defs), orig_substs,
                                 acc.success)))

\* if success.get() { return Some((target_def_id, target_substs)); } ... None
SubstsResult(target_def_id, built) ==
    IF built.panic THEN Panic
    ELSE IF built.success
    THEN Some([def_id |-> target_def_id, substs |-> built.substs])
    ELSE None

translate_orig_substs(index_map, orig_def_id, orig_substs) ==
    IF translate_orig_fn(orig_def_id).tag = "Some"
    THEN SubstsResult(translate_orig_fn(orig_def_id).val,
            for_item(index_map, translate_orig_fn(orig_def_id).val, orig_substs,
                     FullParams(translate_orig_fn(orig_def_id).val),
                     [substs |-> <<>>, success |-> TRUE, panic |-> FALSE]))
    ELSE None

\* Folding a generic argument list: each argument through the folder.
fold_substs(index_map, substs) ==
    [i \in 1..Len(substs) |->
        IF substs[i].gk = "Type"
        THEN TypeArg(translate_ty(index_map, substs[i].ty))
        ELSE LifetimeArg(translate_region(substs[i].region))]

SubstsPanic(substs) ==
    \E i \in 1..Len(substs) : substs[i].gk = "Type" /\ substs[i].ty = PanicTy

FoldedTerm(index_map, term) ==
    IF term.tk = "Ty" THEN TermTy(translate_ty(index_map, term.ty)) ELSE term

\* Structural folding of one existential predicate (the folder visits its arguments and
\* its term before ty_op sees the trait-object node).
fold_ex_pred(index_map, p) ==
    CASE p.ek = "Trait" -> [p EXCEPT !.substs = fold_substs(index_map, @)]
      [] p.ek = "Projection" ->
            [p EXCEPT !.substs = fold_substs(index_map, @),
                      !.term = FoldedTerm(index_map, @)]
      [] OTHER -> p

ExPredPanic(p) ==
    CASE p.ek = "Trait" -> SubstsPanic(p.substs)
      [] p.ek = "Projection" ->
            SubstsPanic(p.substs) \/ (p.term.tk = "Ty" /\ p.term.ty = PanicTy)
      [] OTHER -> FALSE

WithSubsts(ty, s) == IF SubstsPanic(s) THEN PanicTy ELSE [ty EXCEPT !.substs = s]

WithPointee(ty, t) ==
    IF t = PanicTy THEN PanicTy ELSE [ty EXCEPT !.region = translate_region(@), !.ty = t]

WithPreds(ty, ps) ==
    IF \E i \in 1..Len(ps) : ExPredPanic(ps[i])
    THEN PanicTy
    ELSE [ty EXCEPT !.preds = ps, !.region = translate_region(@)]

\* ty.super_fold_with(folder): the children of a node folded, the node itself kept.
super_fold_ty(index_map, ty) ==
    CASE ty.kind \in {"Adt", "FnDef", "Projection", "Opaque"} ->
            WithSubsts(ty, fold_substs(index_map, ty.substs))
      [] ty.kind = "Ref" -> WithPointee(ty, translate_ty(index_map, ty.ty))
      [] ty.kind = "Dynamic" ->
            WithPreds(ty, [i \in 1..Len(ty.preds) |-> fold_ex_pred(index_map, ty.preds[i])])
      [] OTHER -> ty

\* Variant of the Adt arm that keeps the whole node when a nominal type argument is unmapped.
AdtArm_all_or_nothing(ty) ==
    IF /\ translate_orig_fn(ty.def_id).tag = "Some"
       /\ \A i \in 1..Len(ty.substs) :
            (ty.substs[i].gk = "Type" /\ ty.substs[i].ty.kind = "Adt")
                => translate_orig_fn(ty.substs[i].ty.def_id).tag = "Some"
    THEN Adt(translate_orig_fn(ty.def_id).val, ty.substs)
    ELSE ty

\* TyKind::Adt arm (its guard, needs_translation(adt_def.did()), is in ty_op).
AdtArm(ty) ==
    IF translate_orig_fn(ty.def_id).tag = "Some"
    THEN Adt(translate_orig_fn(ty.def_id).val, ty.substs)
    ELSE ty

\* TyKind::Ref arm.
RefArm(ty) == Ref(translate_region(ty.region), ty.ty, ty.mutbl)

\* if let Some((target_def_id, target_substs)) = t { mk_fn_def(..) } else { ty }
FnDefResult(ty, t) ==
    CASE t.tag = "Some" -> FnDef(t.val.def_id, t.val.substs)
      [] t.tag = "Panic" -> PanicTy
      [] OTHER -> ty

\* TyKind::FnDef arm.
FnDefArm(index_map, ty) ==
    FnDefResult(ty, translate_orig_substs(index_map, ty.def_id, ty.substs))

\* The error predicate of the Dynamic arm.
err_pred == AutoTrait(CrateRootId)

\* Binder::dummy(p).with_self_ty(tcx, dummy_self): the argument list with Self in front.
with_self_ty(substs, self_ty) == <<TypeArg(self_ty)>> \o substs

\* The result of the Trait case for the outcome t of translate_orig_substs:
\* [pred, success, panic].  erase_self_ty reads substs.type_at(0) and slices substs[1..]:
\* it panics when there is no Self type.
DynTraitResult(t) ==
    CASE t.tag = "Some" ->
            IF Len(t.val.substs) = 0 \/ t.val.substs[1].gk # "Type"
            THEN [pred |-> err_pred, success |-> TRUE, panic |-> TRUE]
            ELSE [pred |-> ExTrait(t.val.def_id, Tail(t.val.substs)),
                  success |-> TRUE, panic |-> FALSE]
      [] t.tag = "Panic" -> [pred |-> err_pred, success |-> TRUE, panic |-> TRUE]
      [] OTHER -> [pred |-> err_pred, success |-> FALSE, panic |-> FALSE]

\* The Trait case of the Dynamic arm.
DynTraitCase(index_map, p) ==
    DynTraitResult(translate_orig_substs(index_map, p.def_id,
                        with_self_ty(p.substs, trait_object_dummy_self)))

\* The result of the Projection case for the outcome t of translate_orig_substs:
\* [pred, success, panic].  `ty` is the closure's parameter, the trait-object type being
\* rewritten; &target_substs[1..] panics on an empty list.
DynProjectionResult(ty, t) ==
    CASE t.tag = "Some" ->
            IF Len(t.val.substs) = 0
            THEN [pred |-> err_pred, success |-> TRUE, panic |-> TRUE]
            ELSE [pred |-> ExProjection(t.val.def_id, Tail(t.val.substs), TermTy(ty)),
                  success |-> TRUE, panic |-> FALSE]
      [] t.tag = "Panic" -> [pred |-> err_pred, success |-> TRUE, panic |-> TRUE]
      [] OTHER -> [pred |-> err_pred, success |-> FALSE, panic |-> FALSE]

\* The Projection case of the Dynamic arm.
DynProjectionCase(index_map, ty, p) ==
    DynProjectionResult(ty, translate_orig_substs(index_map, p.item_def_id,
                                with_self_ty(p.substs, trait_object_dummy_self)))

\* The AutoTrait case of the Dynamic arm.
DynAutoTraitCase(p) ==
    [pred |-> AutoTrait(translate_orig(p.def_id)), success |-> TRUE, panic |-> FALSE]

\* The closure mapped over preds.
DynPredCase(index_map, ty, p) ==
    CASE p.ek = "Trait" -> DynTraitCase(index_map, p)
      [] p.ek = "Projection" -> DynProjectionCase(index_map, ty, p)
      [] OTHER -> DynAutoTraitCase(p)

\* Variant of the end of the Dynamic arm that builds the node from the collected predicates
\* whether or not all of them were translated.
DynamicResult_collected(ty, r) ==
    IF \E i \in 1..Len(r) : r[i].panic
    THEN PanicTy
    ELSE Dynamic([i \in 1..Len(r) |-> r[i].pred], ty.region)

\* if success.get() { mk_dynamic(target_preds, region) } else { ty }, for the collected
\* results r of the closure.
DynamicResult(ty, r) ==
    IF \E i \in 1..Len(r) : r[i].panic
    THEN PanicTy
    ELSE IF \A i \in 1..Len(r) : r[i].success
    THEN Dynamic([i \in 1..Len(r) |-> r[i].pred], ty.region)
    ELSE ty

\* TyKind::Dynamic arm.
DynamicArm(index_map, ty) ==
    DynamicResult(ty, [i \in 1..Len(ty.preds) |-> DynPredCase(index_map, ty, ty.preds[i])])

ProjectionResult(ty, t) ==
    CASE t.tag = "Some" -> Projection(t.val.def_id, t.val.substs)
      [] t.tag = "Panic" -> PanicTy
      [] OTHER -> ty

\* TyKind::Projection arm.
ProjectionArm(index_map, ty) ==
    ProjectionResult(ty, translate_orig_substs(index_map, ty.item_def_id, ty.substs))

OpaqueResult(ty, t) ==
    CASE t.tag = "Some" -> Opaque(t.val.def_id, t.val.substs)
      [] t.tag = "Panic" -> PanicTy
      [] OTHER -> ty

\* TyKind::Opaque arm.
OpaqueArm(index_map, ty) ==
    OpaqueResult(ty, translate_orig_substs(index_map, ty.def_id, ty.substs))

\* Variant of the Param arm that does not look at translate_params.
ParamArm_always(index_map, ty) ==
    IF ty.index # 0
    THEN IF ty.index \notin DOMAIN index_map
         THEN PanicTy
         ELSE IF needs_translation(index_map[ty.index])
              THEN mk_param_from_def(get_type_param(translate_orig(index_map[ty.index])))
              ELSE ty
    ELSE ty

\* TyKind::Param arm; index_map[&param.index] panics when the map has no such key.
ParamArm(index_map, ty) ==
    IF ty.index # 0 /\ translate_params
    THEN IF ty.index \notin DOMAIN index_map
         THEN PanicTy
         ELSE IF needs_translation(index_map[ty.index])
              THEN mk_param_from_def(get_type_param(translate_orig(index_map[ty.index])))
              ELSE ty
    ELSE ty

\* The ty_op closure of translate.  A fold that has panicked stays panicked.
ty_op(index_map, ty) ==
    CASE ty.kind = "Adt" /\ needs_translation(ty.def_id) -> AdtArm(ty)
      [] ty.kind = "Ref" -> RefArm(ty)
      [] ty.kind = "FnDef" -> FnDefArm(index_map, ty)
      [] ty.kind = "Dynamic" -> DynamicArm(index_map, ty)
      [] ty.kind = "Projection" -> ProjectionArm(index_map, ty)
      [] ty.kind = "Opaque" -> OpaqueArm(index_map, ty)
      [] ty.kind = "Param" -> ParamArm(index_map, ty)
      [] OTHER -> ty

\* translate on a type: BottomUpFolder::fold_ty, the children first, then ty_op.
translate_ty(index_map, orig) == ty_op(index_map, super_fold_ty(index_map, orig))

\* translate on a generic argument list.
translate_substs(index_map, orig) == fold_substs(index_map, orig)

translate_item_type(orig_def_id, orig) ==
    translate_ty(construct_index_map(orig_def_id), orig)

-----------------------------------------------------------------------------
(* Predicates and their translation.                                        *)

Const(t, v) == [ty |-> t, val |-> v]

PTrait(d, s) == [pk |-> "Trait", def_id |-> d, substs |-> s,
                 constness |-> "NotConst", polarity |-> "Positive"]

PRegionOutlives(a, b) == [pk |-> "RegionOutlives", a |-> a, b |-> b]

PTypeOutlives(t, r) == [pk |-> "TypeOutlives", a |-> t, b |-> r]

PProjection(d, s, t) == [pk |-> "Projection", item_def_id |-> d, substs |-> s, term |-> t]

PWellFormed(t) == [pk |-> "WellFormed", ty |-> t]

PObjectSafe(d) == [pk |-> "ObjectSafe", def_id |-> d]

PClosureKind(d, s, k) == [pk |-> "ClosureKind", def_id |-> d, substs |-> s, closure_kind |-> k]

PSubtype(e, a, b) == [pk |-> "Subtype", a_is_expected |-> e, a |-> a, b |-> b]

PCoerce(a, b) == [pk |-> "Coerce", a |-> a, b |-> b]

PConstEvaluatable(d, s) == [pk |-> "ConstEvaluatable", def_id |-> d, substs |-> s]

PConstEquate(c1, c2) == [pk |-> "ConstEquate", c1 |-> c1, c2 |-> c2]

PTypeWellFormedFromEnv(t) == [pk |-> "TypeWellFormedFromEnv", ty |-> t]

\* translate on a constant: the folder visits its type; ct_op is the identity.
translate_const(index_map, c) == [c EXCEPT !.ty = translate_ty(index_map, @)]

\* Whether a fold that built a part of the predicate panicked.
PredPanic(pred) ==
    CASE pred.pk \in {"Trait", "ClosureKind", "ConstEvaluatable"} -> SubstsPanic(pred.substs)
      [] pred.pk = "TypeOutlives" -> pred.a = PanicTy
      [] pred.pk = "Projection" ->
            SubstsPanic(pred.substs) \/ (pred.term.tk = "Ty" /\ pred.term.ty = PanicTy)
      [] pred.pk = "WellFormed" -> pred.ty = PanicTy
      [] pred.pk \in {"Subtype", "Coerce"} -> pred.a = PanicTy \/ pred.b = PanicTy
      [] pred.pk = "ConstEquate" -> pred.c1.ty = PanicTy \/ pred.c2.ty = PanicTy
      [] OTHER -> FALSE

\* Some(ty::Binder::dummy(pred).to_predicate(self.tcx))
SomePred(pred) == IF PredPanic(pred) THEN Panic ELSE Some(pred)

\* PredicateKind::Trait for the outcome t of translate_orig_substs, or `return None`.
TraitResult(pred, t) ==
    CASE t.tag = "Some" -> Some([pred EXCEPT !.def_id = t.val.def_id, !.substs = t.val.substs])
      [] t.tag = "Panic" -> Panic
      [] OTHER -> None

TraitCase(index_map, pred) ==
    TraitResult(pred, translate_orig_substs(index_map, pred.def_id, pred.substs))

\* PredicateKind::Projection for the outcome t of translate_orig_substs, or `return None`;
\* the term is translated only once the projection has been.
ProjectionPredResult(index_map, pred, t) ==
    CASE t.tag = "Some" ->
            SomePred(PProjection(t.val.def_id, t.val.substs, FoldedTerm(index_map, pred.term)))
      [] t.tag = "Panic" -> Panic
      [] OTHER -> None

ProjectionCase(index_map, pred) ==
    ProjectionPredResult(index_map, pred,
        translate_orig_substs(index_map, pred.item_def_id, pred.substs))

\* PredicateKind::ConstEvaluatable for the outcome t of translate_orig_substs.
ConstEvaluatableResult(t) ==
    CASE t.tag = "Some" -> Some(PConstEvaluatable(t.val.def_id, t.val.substs))
      [] t.tag = "Panic" -> Panic
      [] OTHER -> None

ConstEvaluatableCase(index_map, pred) ==
    ConstEvaluatableResult(translate_orig_substs(index_map, pred.def_id, pred.substs))

translate_predicate(index_map, predicate) ==
    CASE predicate.pk = "Trait" -> TraitCase(index_map, predicate)
      [] predicate.pk = "RegionOutlives" ->
            SomePred(PRegionOutlives(translate_region(predicate.a),
                                     translate_region(predicate.b)))
      [] predicate.pk = "TypeOutlives" ->
            SomePred(PTypeOutlives(translate_ty(index_map, predicate.a),
                                   translate_region(predicate.b)))
      [] predicate.pk = "Projection" -> ProjectionCase(index_map, predicate)
      [] predicate.pk = "WellFormed" ->
            SomePred(PWellFormed(translate_ty(index_map, predicate.ty)))
      [] predicate.pk = "ObjectSafe" -> SomePred(PObjectSafe(translate_orig(predicate.def_id)))
      [] predicate.pk = "ClosureKind" ->
            SomePred(PClosureKind(translate_orig(predicate.def_id),
                                  translate_substs(index_map, predicate.substs),
                                  predicate.closure_kind))
      [] predicate.pk = "Subtype" ->
            SomePred(PSubtype(predicate.a_is_expected,
                              translate_ty(index_map, predicate.a),
                              translate_ty(index_map, predicate.b)))
      [] predicate.pk = "Coerce" ->
            SomePred(PCoerce(translate_ty(index_map, predicate.a),
                             translate_ty(index_map, predicate.b)))
      [] predicate.pk = "ConstEvaluatable" -> ConstEvaluatableCase(index_map, predicate)
      [] predicate.pk = "ConstEquate" ->
            SomePred(PConstEquate(translate_const(index_map, predicate.c1),
                                  translate_const(index_map, predicate.c2)))
      [] OTHER -> Panic   \* TypeWellFormedFromEnv: unimplemented!()

RECURSIVE translate_predicates_loop(_, _, _)

\* Variant of the loop body that skips a predicate without translation.
LoopStep_skipping(index_map, orig_preds, target_preds, target_pred) ==
    CASE target_pred.tag = "Some" ->
            translate_predicates_loop(index_map, Tail(orig_preds),
                                      Append(target_preds, target_pred.val))
      [] target_pred.tag = "Panic" -> Panic
      [] OTHER -> translate_predicates_loop(index_map, Tail(orig_preds), target_preds)

\* One turn of the loop for the outcome of translate_predicate on the first predicate.
LoopStep(index_map, orig_preds, target_preds, target_pred) ==
    CASE target_pred.tag = "Some" ->
            translate_predicates_loop(index_map, Tail(orig_preds),
                                      Append(target_preds, target_pred.val))
      [] target_pred.tag = "Panic" -> Panic
      [] OTHER -> None

\* The loop of translate_predicates over orig_preds, pushing to target_preds.
translate_predicates_loop(index_map, orig_preds, target_preds) ==
    IF orig_preds = <<>>
    THEN Some(target_preds)
    ELSE LoopStep(index_map, orig_preds, target_preds,
                  translate_predicate(index_map, Head(orig_preds)))

translate_predicates(orig_def_id, orig_preds) ==
    translate_predicates_loop(construct_index_map(orig_def_id), orig_preds, <<>>)

ParamEnv(bounds, reveal, constness) ==
    [caller_bounds |-> bounds, reveal |-> reveal, constness |-> constness]

\* .map(|target_preds| ParamEnv::new(..)) on the outcome t of translate_predicates.
ParamEnvResult(param_env, t) ==
    IF t.tag = "Some"
    THEN Some(ParamEnv(t.val, param_env.reveal, param_env.constness))
    ELSE t

translate_param_env(orig_def_id, param_env) ==
    ParamEnvResult(param_env, translate_predicates(orig_def_id, param_env.caller_bounds))

InherentEntry(d, k, n) == [parent_def_id |-> d, kind |-> k, name |-> n]

\* Variant of translate_inherent_entry with the identity fallback of translate_orig.
translate_inherent_entry_fallback(orig_entry) ==
    Some(InherentEntry(translate_orig(orig_entry.parent_def_id),
                       orig_entry.kind, orig_entry.name))

translate_inherent_entry(orig_entry) ==
    IF translate_orig_fn(orig_entry.parent_def_id).tag = "Some"
    THEN Some(InherentEntry(translate_orig_fn(orig_entry.parent_def_id).val,
                            orig_entry.kind, orig_entry.name))
    ELSE None

-----------------------------------------------------------------------------
(* InferenceCleanupFolder.                                                  *)

\* Region::needs_infer: the region is an unresolved inference variable.
needs_infer(r) == r.rk = "ReVar"

fold_region(r) == IF needs_infer(r) THEN ReErased ELSE r

RECURSIVE fold_ty(_)

cleanup_substs(substs) ==
    [i \in 1..Len(substs) |->
        IF substs[i].gk = "Type"
        THEN TypeArg(fold_ty(substs[i].ty))
        ELSE LifetimeArg(fold_region(substs[i].region))]

cleanup_term(term) == IF term.tk = "Ty" THEN TermTy(fold_ty(term.ty)) ELSE term

cleanup_ex_pred(p) ==
    CASE p.ek = "Trait" -> [p EXCEPT !.substs = cleanup_substs(@)]
      [] p.ek = "Projection" ->
            [p EXCEPT !.substs = cleanup_substs(@), !.term = cleanup_term(@)]
      [] OTHER -> p

\* ty.super_fold_with(self) for the cleanup folder.
cleanup_super_fold(ty) ==
    CASE ty.kind \in {"Adt", "FnDef", "Projection", "Opaque"} ->
            [ty EXCEPT !.substs = cleanup_substs(@)]
      [] ty.kind = "Ref" -> [ty EXCEPT !.region = fold_region(@), !.ty = fold_ty(@)]
      [] ty.kind = "Dynamic" ->
            [ty EXCEPT !.preds = [i \in 1..Len(ty.preds) |-> cleanup_ex_pred(ty.preds[i])],
                       !.region = fold_region(@)]
      [] OTHER -> ty

\* Variant of the match of fold_ty without the arm for unresolved type variables.
cleanup_match_no_infer(t1) ==
    CASE t1.kind = "Ref" /\ needs_infer(t1.region) -> Ref(ReErased, t1.ty, t1.mutbl)
      [] OTHER -> t1

\* The match of fold_ty on the super-folded type t1.
cleanup_match(t1) ==
    CASE t1.kind = "Ref" /\ needs_infer(t1.region) -> Ref(ReErased, t1.ty, t1.mutbl)
      [] t1.kind = "Infer" -> TyError
      [] OTHER -> t1

fold_ty(ty) == cleanup_match(cleanup_super_fold(ty))

-----------------------------------------------------------------------------
(* The inputs the operations are applied to.                                *)

SrcId(n) == Id(SrcCrate, n)

ExtId(n) == Id("ext", n)

\* The names a mapping may leave without a counterpart.
Unmappable == {"X", "Abc", "Tr", "Assoc", "Fun", "Fun_T"}

\* The items whose types and predicates are translated.
Items == {SrcId("Fun"), SrcId("Meth")}

u8 == Prim("u8")

\* The bound type parameters an item's types can mention.
TypeParamsOf(item) ==
    LET ps == FullParams(item)
    IN {mk_param_from_def(ps[i]) : i \in {j \in 1..Len(ps) : ps[j].kind = "Type"}}

Regions ==
    {ReStatic,
     ReEarlyBound(SrcId("Fun_a"), 0, "Fun_a"),
     ReFree(SrcId("Fun"), BrNamed(SrcId("Fun_a"), "Fun_a")),
     ReFree(SrcId("Fun"), BrAnon)}

FewRegions == {ReStatic, ReEarlyBound(SrcId("Fun_a"), 0, "Fun_a")}

Leaves(item) ==
    {u8, Adt(SrcId("Abc"), <<>>), Adt(SrcId("X"), <<>>), Adt(ExtId("Abc"), <<>>)}
        \cup TypeParamsOf(item)

FewLeaves(item) == {u8, Adt(SrcId("X"), <<>>)} \cup TypeParamsOf(item)

\* The argument lists that fit a parameter list: a region per lifetime parameter, a type
\* of `tys` per type parameter.
RECURSIVE ArgLists(_, _, _)
ArgLists(defs, rs, tys) ==
    IF defs = <<>>
    THEN {<<>>}
    ELSE LET heads == IF Head(defs).kind = "Lifetime"
                      THEN {LifetimeArg(r) : r \in rs}
                      ELSE {TypeArg(t) : t \in tys}
         IN {<<a>> \o rest : a \in heads, rest \in ArgLists(Tail(defs), rs, tys)}

ArgsOf(id, tys) == ArgLists(FullParams(id), {ReStatic}, tys)

\* The existential predicates of the trait-object inputs (argument lists without Self).
ExPreds ==
    {ExTrait(SrcId("Tr"), <<TypeArg(u8)>>),
     ExTrait(SrcId("Tr"), <<TypeArg(Adt(SrcId("X"), <<>>))>>),
     ExTrait(ExtId("Tr"), <<TypeArg(u8)>>),
     ExProjection(SrcId("Assoc"), <<TypeArg(u8)>>, TermTy(Adt(SrcId("Abc"), <<>>))),
     ExProjection(ExtId("Assoc"), <<TypeArg(u8)>>, TermTy(u8)),
     AutoTrait(SrcId("Abc"))}

DynamicTypes ==
    {Dynamic(<<p>>, ReStatic) : p \in ExPreds}
        \cup {Dynamic(<<p, q>>, r) : p \in ExPreds, q \in ExPreds, r \in FewRegions}

Level1(item) ==
    UNION {{Adt(d, s) : s \in ArgsOf(d, Leaves(item))} : d \in {SrcId("Def"), ExtId("Def")}}
        \cup {Ref(r, t, "Not") : r \in Regions, t \in Leaves(item)}
        \cup UNION {{FnDef(d, s) : s \in ArgsOf(d, FewLeaves(item))} :
                        d \in {SrcId("Fun"), ExtId("Fun")}}
        \cup UNION {{Projection(d, s) : s \in ArgsOf(d, FewLeaves(item))} :
                        d \in {SrcId("Assoc"), ExtId("Assoc")}}
        \cup UNION {{Opaque(d, s) : s \in ArgsOf(d, {u8})} :
                        d \in {SrcId("Opq"), ExtId("Opq")}}
        \cup {Opaque(SrcId("Def"), s) : s \in ArgsOf(SrcId("Def"), FewLeaves(item))}
        \cup DynamicTypes

Nested(item) ==
    {Dynamic(<<p>>, ReStatic) : p \in ExPreds}
        \cup {Adt(SrcId("Def"), s) : s \in ArgsOf(SrcId("Def"), {Adt(SrcId("X"), <<>>)})}
        \cup {FnDef(SrcId("Fun"), s) : s \in ArgsOf(SrcId("Fun"), TypeParamsOf(item))}

Level2(item) ==
    {Adt(SrcId("Def"), s) : s \in ArgsOf(SrcId("Def"), Nested(item))}
        \cup {Ref(ReStatic, t, "Mut") : t \in Nested(item)}

InputTypes(item) == Leaves(item) \cup Level1(item) \cup Level2(item)

\* An item of a third crate, whose parameters need no translation, and its types.
ForeignItem == ExtId("Fun")

ForeignItemTypes ==
    Leaves(ForeignItem) \cup {Ref(ReStatic, t, "Not") : t \in TypeParamsOf(ForeignItem)}

\* The item and type given to translate_item_type.
ItemTypes ==
    {[item |-> item, ty |-> ty] : item \in {ForeignItem}, ty \in ForeignItemTypes}
        \cup UNION {{[item |-> item, ty |-> ty] : ty \in InputTypes(item)} : item \in Items}

X == Adt(SrcId("X"), <<>>)

Abc == Adt(SrcId("Abc"), <<>>)

\* The predicates translate_predicate is applied to.  TypeWellFormedFromEnv is left out:
\* only the Chalk trait solver produces it.
Preds(item) ==
    {PTrait(d, <<TypeArg(a), TypeArg(b)>>) :
        d \in {SrcId("Tr"), ExtId("Tr")}, a \in TypeParamsOf(item) \cup {u8},
        b \in {u8, X, Abc}}
        \cup {PRegionOutlives(a, b) : a \in FewRegions, b \in Regions}
        \cup {PTypeOutlives(t, r) : t \in FewLeaves(item), r \in FewRegions}
        \cup {PProjection(d, <<TypeArg(a), TypeArg(b)>>, t) :
                d \in {SrcId("Assoc"), ExtId("Assoc")}, a \in {u8}, b \in {u8, X},
                t \in {TermTy(u8), TermTy(X), TermTy(Abc), TermConst(Const(X, "c"))}}
        \cup {PWellFormed(t) : t \in Leaves(item)}
        \cup {PWellFormed(Adt(SrcId("Def"), s)) : s \in ArgsOf(SrcId("Def"), {u8, X})}
        \cup {PObjectSafe(d) : d \in {SrcId("Tr"), ExtId("Tr")}}
        \cup {PClosureKind(SrcId("Fun"), s, "Fn") : s \in ArgsOf(SrcId("Fun"), {u8, X})}
        \cup {PSubtype(TRUE, a, b) : a \in {u8, Abc}, b \in FewLeaves(item)}
        \cup {PCoerce(a, b) : a \in {u8, Abc}, b \in FewLeaves(item)}
        \cup UNION {{PConstEvaluatable(d, s) : s \in ArgsOf(d, {u8, X})} :
                        d \in {SrcId("Fun"), ExtId("Fun")}}
        \cup {PConstEvaluatable(SrcId("Abc"), <<>>)}
        \cup {PConstEquate(Const(a, "c1"), Const(b, "c2")) : a \in {u8, Abc}, b \in {u8, X}}

\* The predicates the predicate lists are made of.
ListPreds ==
    {PTrait(SrcId("Tr"), <<TypeArg(u8), TypeArg(u8)>>),
     PTrait(SrcId("Tr"), <<TypeArg(u8), TypeArg(X)>>),
     PTrait(ExtId("Tr"), <<TypeArg(Abc), TypeArg(u8)>>),
     PProjection(SrcId("Assoc"), <<TypeArg(u8), TypeArg(u8)>>, TermTy(Abc)),
     PWellFormed(X),
     PObjectSafe(SrcId("Tr")),
     PRegionOutlives(ReStatic, ReFree(SrcId("Fun"), BrAnon))}

RECURSIVE SeqsUpTo(_, _)
SeqsUpTo(S, n) ==
    IF n = 0
    THEN {<<>>}
    ELSE LET shorter == SeqsUpTo(S, n - 1)
         IN shorter \cup {Append(q, x) : q \in shorter, x \in S}

PredLists == SeqsUpTo(ListPreds, MaxPreds)

\* The (DefId, substs) pairs translate_orig_substs is applied to directly: every argument
\* list of up to three arguments, whether or not it fits the item's parameters.
SubstsIds ==
    {SrcId(n) : n \in {"Abc", "Def", "Tr", "Assoc", "Fun", "Opq"}} \cup {ExtId("Def")}

SubstsArgs == {LifetimeArg(ReStatic), TypeArg(u8), TypeArg(X)}

SubstsLists ==
    {<<>>} \cup {<<a>> : a \in SubstsArgs}
        \cup {<<a, b>> : a \in SubstsArgs, b \in SubstsArgs}
        \cup {<<a, b, c>> : a \in SubstsArgs, b \in SubstsArgs, c \in SubstsArgs}

InherentEntries ==
    {InherentEntry(d, k, n) :
        d \in {SrcId("Abc"), SrcId("Def"), SrcId("X"), ExtId("Abc")},
        k \in {"Method", "Const"}, n \in {"abc", "def"}}

\* The items construct_index_map is applied to.
IndexedItems ==
    {SrcId(n) : n \in {"Abc", "Def", "Tr", "Assoc", "Fun", "Impl", "Meth", "Opq"}}

\* The types and regions of an inference context, some still unresolved.
InferRegions == {ReVar, ReStatic, ReErased}

InferLeaves == {u8, Infer("TyVar"), Infer("FreshTy0"), Abc}

InferLevel1 ==
    {Ref(r, t, m) : r \in InferRegions, t \in InferLeaves, m \in {"Not", "Mut"}}
        \cup {Adt(SrcId("Def"), s) : s \in ArgsOf(SrcId("Def"), InferLeaves)}
        \cup {FnDef(SrcId("Fun"), s) :
                s \in ArgLists(FullParams(SrcId("Fun")), InferRegions, {u8, Infer("TyVar")})}
        \cup {Dynamic(<<ExTrait(SrcId("Tr"), <<TypeArg(t)>>)>>, r) :
                t \in InferLeaves, r \in InferRegions}
        \cup {Dynamic(<<ExProjection(SrcId("Assoc"), <<TypeArg(u8)>>, TermTy(t)),
                        AutoTrait(SrcId("Abc"))>>, ReVar) : t \in InferLeaves}

InferNested ==
    {Ref(ReVar, Infer("TyVar"), "Not"), Ref(ReVar, u8, "Mut"), Ref(ReStatic, Infer("TyVar"), "Mut"),
     Dynamic(<<ExTrait(SrcId("Tr"), <<TypeArg(Infer("TyVar"))>>)>>, ReVar)}

InferLevel2 ==
    {Ref(r, t, "Not") : r \in {ReVar, ReStatic}, t \in InferLevel1}
        \cup {Adt(SrcId("Def"), s) : s \in ArgsOf(SrcId("Def"), InferNested)}

InferTypes == InferLeaves \cup InferLevel1 \cup InferLevel2

-----------------------------------------------------------------------------
(* The state machine.                                                       *)

NoArg == [none |-> TRUE]

Init ==
    /\ target \in {"new", "old"}
    /\ translate_params \in BOOLEAN
    /\ unmapped \in {u \in SUBSET Unmappable : Cardinality(u) <= MaxUnmapped}
    /\ foreign_mapped \in BOOLEAN
    /\ op = "idle"
    /\ arg = NoArg
    /\ res = None

Context == <<target, translate_params, unmapped, foreign_mapped>>

\* A panic of translate_item_type is recorded as Panic, a type as Some(type).
TypeOutcome(t) == IF t = PanicTy THEN Panic ELSE Some(t)

TranslateItemType ==
    /\ op = "idle"
    /\ \E call \in ItemTypes :
        /\ op' = "translate_item_type"
        /\ arg' = call
        /\ res' = TypeOutcome(translate_item_type(call.item, call.ty))
        /\ UNCHANGED Context

TranslatePredicate ==
    /\ op = "idle"
    /\ \E item \in Items : \E predicate \in Preds(item) :
        /\ op' = "translate_predicate"
        /\ arg' = [item |-> item, predicate |-> predicate]
        /\ res' = translate_predicate(construct_index_map(item), predicate)
        /\ UNCHANGED Context

TranslateParamEnv ==
    /\ op = "idle"
    /\ \E item \in Items : \E bounds \in PredLists :
        /\ op' = "translate_param_env"
        /\ arg' = [item |-> item, param_env |-> ParamEnv(bounds, "UserFacing", "NotConst")]
        /\ res' = translate_param_env(item, ParamEnv(bounds, "UserFacing", "NotConst"))
        /\ UNCHANGED Context

TranslateOrigSubsts ==
    /\ op = "idle"
    /\ \E orig_def_id \in SubstsIds : \E orig_substs \in SubstsLists :
        /\ op' = "translate_orig_substs"
        /\ arg' = [item |-> SrcId("Fun"), orig_def_id |-> orig_def_id,
                   orig_substs |-> orig_substs]
        /\ res' = translate_orig_substs(construct_index_map(SrcId("Fun")),
                                        orig_def_id, orig_substs)
        /\ UNCHANGED Context

TranslateInherentEntry ==
    /\ op = "idle"
    /\ \E orig_entry \in InherentEntries :
        /\ op' = "translate_inherent_entry"
        /\ arg' = [orig_entry |-> orig_entry]
        /\ res' = translate_inherent_entry(orig_entry)
        /\ UNCHANGED Context

ConstructIndexMap ==
    /\ op = "idle"
    /\ \E orig_def_id \in IndexedItems :
        /\ op' = "construct_index_map"
        /\ arg' = [orig_def_id |-> orig_def_id]
        /\ res' = Some(construct_index_map(orig_def_id))
        /\ UNCHANGED Context

\* InferenceCleanupFolder::fold_ty on a type of the inference context.
CleanupType ==
    /\ op = "idle"
    /\ \E ty \in InferTypes :
        /\ op' = "fold_ty"
        /\ arg' = [ty |-> ty]
        /\ res' = Some(fold_ty(ty))
        /\ UNCHANGED Context

\* InferenceCleanupFolder::fold_region on a region of the inference context.
CleanupRegion ==
    /\ op = "idle"
    /\ \E r \in InferRegions \cup Regions :
        /\ op' = "fold_region"
        /\ arg' = [region |-> r]
        /\ res' = Some(fold_region(r))
        /\ UNCHANGED Context

\* The call returns; the context is used for the next call.
Return ==
    /\ op # "idle"
    /\ op' = "idle"
    /\ arg' = NoArg
    /\ res' = None
    /\ UNCHANGED Context

Next ==
    \/ TranslateItemType
    \/ TranslatePredicate
    \/ TranslateParamEnv
    \/ TranslateOrigSubsts
    \/ TranslateInherentEntry
    \/ ConstructIndexMap
    \/ CleanupType
    \/ CleanupRegion
    \/ Return

Spec == Init /\ [][Next]_vars

-----------------------------------------------------------------------------
(* Vocabulary of the properties.                                            *)

\* The identifiers a region, a type, an argument list or a predicate mentions.
IdsOfRegion(r) ==
    CASE r.rk = "ReEarlyBound" -> {r.def_id}
      [] r.rk = "ReFree" ->
            {r.scope} \cup (IF r.bound_region.brk = "BrNamed"
                            THEN {r.bound_region.def_id} ELSE {})
      [] OTHER -> {}

RECURSIVE IdsOfTy(_)

IdsOfSubsts(substs) ==
    UNION {IF substs[i].gk = "Type"
           THEN IdsOfTy(substs[i].ty)
           ELSE IdsOfRegion(substs[i].region) : i \in 1..Len(substs)}

IdsOfTerm(term) == IF term.tk = "Ty" THEN IdsOfTy(term.ty) ELSE IdsOfTy(term.ct.ty)

IdsOfExPred(p) ==
    CASE p.ek = "Trait" -> {p.def_id} \cup IdsOfSubsts(p.substs)
      [] p.ek = "Projection" ->
            {p.item_def_id} \cup IdsOfSubsts(p.substs) \cup IdsOfTerm(p.term)
      [] OTHER -> {p.def_id}

IdsOfTy(ty) ==
    CASE ty.kind \in {"Adt", "FnDef", "Opaque"} -> {ty.def_id} \cup IdsOfSubsts(ty.substs)
      [] ty.kind = "Projection" -> {ty.item_def_id} \cup IdsOfSubsts(ty.substs)
      [] ty.kind = "Ref" -> IdsOfRegion(ty.region) \cup IdsOfTy(ty.ty)
      [] ty.kind = "Dynamic" ->
            IdsOfRegion(ty.region)
                \cup UNION {IdsOfExPred(ty.preds[i]) : i \in 1..Len(ty.preds)}
      [] OTHER -> {}

IdsOfPred(p) ==
    CASE p.pk \in {"Trait", "ConstEvaluatable", "ClosureKind"} ->
            {p.def_id} \cup IdsOfSubsts(p.substs)
      [] p.pk = "RegionOutlives" -> IdsOfRegion(p.a) \cup IdsOfRegion(p.b)
      [] p.pk = "TypeOutlives" -> IdsOfTy(p.a) \cup IdsOfRegion(p.b)
      [] p.pk = "Projection" ->
            {p.item_def_id} \cup IdsOfSubsts(p.substs) \cup IdsOfTerm(p.term)
      [] p.pk \in {"WellFormed", "TypeWellFormedFromEnv"} -> IdsOfTy(p.ty)
      [] p.pk = "ObjectSafe" -> {p.def_id}
      [] p.pk \in {"Subtype", "Coerce"} -> IdsOfTy(p.a) \cup IdsOfTy(p.b)
      [] OTHER -> IdsOfTy(p.c1.ty) \cup IdsOfTy(p.c2.ty)

\* An identifier of the source crate for which the mapping has no counterpart.
UnmappedId(id) == id.crate = SrcCrate /\ id.name \in unmapped

\* An identifier the mapping has no entry for at all.
NoEntry(id) == UnmappedId(id) \/ (id.crate # SrcCrate /\ ~foreign_mapped)

\* The counterpart of a mapped identifier of the source crate.
Counterpart(id) == Id(DstCrate, id.name)

-----------------------------------------------------------------------------
(* C1 *)

RefsUnmapped(p) == \E id \in IdsOfPred(p) : UnmappedId(id)

\* C1 (total cancellation): a predicate list in which exactly one predicate references
\* an identifier that has no mapping translates to "no result".  The predicate is taken
\* among the kinds whose failure the predicate translator reports: trait bound,
\* projection, const-evaluatable.
C1_TotalCancellation ==
    (/\ op = "translate_param_env"
     /\ \E i \in 1..Len(arg.param_env.caller_bounds) :
            /\ RefsUnmapped(arg.param_env.caller_bounds[i])
            /\ arg.param_env.caller_bounds[i].pk \in {"Trait", "Projection", "ConstEvaluatable"}
            /\ \A j \in 1..Len(arg.param_env.caller_bounds) :
                    j # i => ~RefsUnmapped(arg.param_env.caller_bounds[j]))
        => res = None

-----------------------------------------------------------------------------
(* C2 *)

\* The trait or item identifier of an existential predicate.
ExPredId(p) == IF p.ek = "Projection" THEN p.item_def_id ELSE p.def_id

\* A trait-bound or projection predicate of a trait object whose identifier is unmapped:
\* translate_orig_substs fails on it.
ExPredFails(p) == p.ek \in {"Trait", "Projection"} /\ UnmappedId(ExPredId(p))

\* translate_item_type was applied to a trait-object type one of whose predicates fails.
DynFailed ==
    /\ op = "translate_item_type"
    /\ arg.ty.kind = "Dynamic"
    /\ \E i \in 1..Len(arg.ty.preds) : ExPredFails(arg.ty.preds[i])

HasSentinel(ty) ==
    ty.kind = "Dynamic" /\ \E i \in 1..Len(ty.preds) : ty.preds[i] = err_pred

\* C2 as claimed: when a predicate of a trait object fails to translate, the resulting
\* node is the "unrepresentable" sentinel.
C2_SentinelNode == DynFailed => (res.tag = "Some" /\ HasSentinel(res.val))

\* C2 as amended: when a predicate of a trait object fails to translate, the result is
\* the trait-object node with all its predicates, each of the same kind and with its own
\* identifier untranslated, and without the sentinel; only the children folded before
\* (argument types, equated types, the region) may differ from the input.
C2_NodeKept ==
    DynFailed =>
        /\ res.tag = "Some"
        /\ res.val.kind = "Dynamic"
        /\ Len(res.val.preds) = Len(arg.ty.preds)
        /\ \A i \in 1..Len(arg.ty.preds) :
            /\ res.val.preds[i].ek = arg.ty.preds[i].ek
            /\ ExPredId(res.val.preds[i]) = ExPredId(arg.ty.preds[i])
        /\ ~HasSentinel(res.val)

\* A trait object of two predicates, one failing and one translatable on its own.
C2_Witness ==
    /\ DynFailed
    /\ Len(arg.ty.preds) = 2
    /\ \E i \in 1..2 :
        /\ ~ExPredFails(arg.ty.preds[i])
        /\ arg.ty.preds[i].ek \in {"Trait", "Projection"}
        /\ ExPredId(arg.ty.preds[i]).crate = SrcCrate
    /\ res.tag = "Some"

-----------------------------------------------------------------------------
(* C3 *)

\* A nominal type with no arguments whose identifier needs translation and is unmapped.
UnmappedNominal(ty) == ty.kind = "Adt" /\ ty.substs = <<>> /\ UnmappedId(ty.def_id)

\* translate_item_type was applied to Adt<Inner..> with Adt mapped and every Inner an
\* unmapped nominal type.
MappedOverUnmapped ==
    /\ op = "translate_item_type"
    /\ arg.ty.kind = "Adt"
    /\ arg.ty.def_id.crate = SrcCrate
    /\ ~UnmappedId(arg.ty.def_id)
    /\ arg.ty.substs # <<>>
    /\ \A i \in 1..Len(arg.ty.substs) :
        arg.ty.substs[i].gk = "Type" /\ UnmappedNominal(arg.ty.substs[i].ty)

\* C3 (best effort): Adt<Inner> with Adt mapped and Inner unmapped translates to the
\* target of Adt applied to the very same Inner; the call does not fail.
C3_BestEffortNominal ==
    MappedOverUnmapped =>
        res = Some(Adt(Counterpart(arg.ty.def_id), arg.ty.substs))

C3_Witness == MappedOverUnmapped /\ res.tag = "Some" /\ res.val # arg.ty

-----------------------------------------------------------------------------
(* C4 *)

\* The type nodes of a type: the type itself and the types nested in it.
RECURSIVE TypesOfTy(_)

TypesOfSubsts(substs) ==
    UNION {IF substs[i].gk = "Type" THEN TypesOfTy(substs[i].ty) ELSE {} :
            i \in 1..Len(substs)}

TypesOfExPred(p) ==
    CASE p.ek = "Trait" -> TypesOfSubsts(p.substs)
      [] p.ek = "Projection" ->
            TypesOfSubsts(p.substs) \cup (IF p.term.tk = "Ty" THEN TypesOfTy(p.term.ty) ELSE {})
      [] OTHER -> {}

TypesOfTy(ty) ==
    {ty} \cup
    CASE ty.kind \in {"Adt", "FnDef", "Opaque", "Projection"} -> TypesOfSubsts(ty.substs)
      [] ty.kind = "Ref" -> TypesOfTy(ty.ty)
      [] ty.kind = "Dynamic" -> UNION {TypesOfExPred(ty.preds[i]) : i \in 1..Len(ty.preds)}
      [] OTHER -> {}

\* A bound type parameter that stands for no identifier needing translation: Self, or any
\* parameter when parameters are not translated, or a parameter declared outside the
\* source crate.
ParamNeedsNothing(item, t) ==
    \/ t.index = 0
    \/ ~translate_params
    \/ /\ t.index \in DOMAIN construct_index_map(item)
       /\ construct_index_map(item)[t.index].crate # SrcCrate

\* The type contains no identifier needing translation.
NothingToTranslate(item, ty) ==
    /\ \A id \in IdsOfTy(ty) : id.crate # SrcCrate
    /\ \A t \in TypesOfTy(ty) : t.kind = "Param" => ParamNeedsNothing(item, t)

\* C4 (identity): a type expression that contains no identifier needing translation is
\* translated to itself, in either direction.
C4_Identity ==
    (op = "translate_item_type" /\ NothingToTranslate(arg.item, arg.ty))
        => res = Some(arg.ty)

-----------------------------------------------------------------------------
(* C5 *)

\* C5 (predicate-level all-or-nothing): a trait-bound, projection or const-evaluatable
\* predicate that mentions, anywhere inside it, an identifier that needs translation and
\* is unmapped translates to "no result".
C5_PredicateAllOrNothing ==
    (/\ op = "translate_predicate"
     /\ arg.predicate.pk \in {"Trait", "Projection", "ConstEvaluatable"}
     /\ \E id \in IdsOfPred(arg.predicate) : UnmappedId(id))
        => res = None

-----------------------------------------------------------------------------
(* C6 *)

\* The identifier translate_orig_substs builds the argument list for, when it has one.
TargetOf(id) == IF id.crate = SrcCrate THEN Counterpart(id) ELSE id

\* A parameter of the target item for which the source argument list offers nothing: no
\* argument of the parameter's kind at its position, and, for a type parameter, neither a
\* default nor the Self position of an item with a Self type.
PositionFails(target_id, def, orig_substs) ==
    LET here == def.index + 1 IN
    IF def.kind = "Lifetime"
    THEN ~(here <= Len(orig_substs) /\ orig_substs[here].gk = "Lifetime")
    ELSE /\ ~(here <= Len(orig_substs) /\ orig_substs[here].gk = "Type")
         /\ ~is_non_mapped_defaulted_type_param(def.def_id)
         /\ ~(def.index = 0 /\ generics_of(target_id).has_self)

SomePositionFails(target_id, orig_substs) ==
    \E i \in 1..Len(FullParams(target_id)) :
        PositionFails(target_id, FullParams(target_id)[i], orig_substs)

\* C6: translate_orig_substs returns None exactly when the identifier has no entry in the
\* mapping or some position of the target's parameter list fails; a result has one
\* argument per parameter of the target item, of that parameter's kind.
C6_AllOrNothingSubsts ==
    op = "translate_orig_substs" =>
        /\ res.tag \in {"Some", "None"}
        /\ res = None <=>
            \/ NoEntry(arg.orig_def_id)
            \/ SomePositionFails(TargetOf(arg.orig_def_id), arg.orig_substs)
        /\ res.tag = "Some" =>
            /\ res.val.def_id = TargetOf(arg.orig_def_id)
            /\ Len(res.val.substs) = Len(FullParams(res.val.def_id))
            /\ \A i \in 1..Len(res.val.substs) :
                res.val.substs[i].gk = FullParams(res.val.def_id)[i].kind

\* A target with two parameters whose first position fails while the second has a source
\* argument: no result.
C6_WitnessFailed ==
    /\ op = "translate_orig_substs"
    /\ ~NoEntry(arg.orig_def_id)
    /\ Len(FullParams(TargetOf(arg.orig_def_id))) = 2
    /\ PositionFails(TargetOf(arg.orig_def_id), FullParams(TargetOf(arg.orig_def_id))[1],
                     arg.orig_substs)
    /\ ~PositionFails(TargetOf(arg.orig_def_id), FullParams(TargetOf(arg.orig_def_id))[2],
                      arg.orig_substs)
    /\ res = None

-----------------------------------------------------------------------------
(* C7 *)

\* C7: translate_inherent_entry replaces the owner by its counterpart and keeps the member
\* kind and name; an owner without a mapping gives "no result".
C7_InherentEntry ==
    op = "translate_inherent_entry" =>
        IF NoEntry(arg.orig_entry.parent_def_id)
        THEN res = None
        ELSE res = Some([arg.orig_entry EXCEPT !.parent_def_id = TargetOf(@)])

C7_Witness ==
    /\ op = "translate_inherent_entry"
    /\ arg.orig_entry.parent_def_id.crate = SrcCrate
    /\ res.tag = "Some"
    /\ res.val.parent_def_id # arg.orig_entry.parent_def_id

-----------------------------------------------------------------------------
(* C8 *)

CleanRegion(in, out) == out = (IF in = ReVar THEN ReErased ELSE in)

RECURSIVE CleanedFrom(_, _)

CleanSubsts(in, out) ==
    /\ Len(out) = Len(in)
    /\ \A i \in 1..Len(in) :
        /\ out[i].gk = in[i].gk
        /\ IF in[i].gk = "Type"
           THEN CleanedFrom(in[i].ty, out[i].ty)
           ELSE CleanRegion(in[i].region, out[i].region)

CleanExPred(in, out) ==
    /\ out.ek = in.ek
    /\ ExPredId(out) = ExPredId(in)
    /\ in.ek \in {"Trait", "Projection"} => CleanSubsts(in.substs, out.substs)
    /\ in.ek = "Projection" =>
        /\ out.term.tk = in.term.tk
        /\ IF in.term.tk = "Ty"
           THEN CleanedFrom(in.term.ty, out.term.ty)
           ELSE out.term = in.term

\* `out` is `in` with every unresolved type variable replaced by the error type and every
\* unresolved region variable by the erased region, and nothing else changed.
CleanedFrom(in, out) ==
    CASE in.kind = "Infer" -> out = TyError
      [] in.kind = "Ref" ->
            /\ out.kind = "Ref"
            /\ out.mutbl = in.mutbl
            /\ CleanRegion(in.region, out.region)
            /\ CleanedFrom(in.ty, out.ty)
      [] in.kind \in {"Adt", "FnDef", "Opaque"} ->
            /\ out.kind = in.kind
            /\ out.def_id = in.def_id
            /\ CleanSubsts(in.substs, out.substs)
      [] in.kind = "Projection" ->
            /\ out.kind = in.kind
            /\ out.item_def_id = in.item_def_id
            /\ CleanSubsts(in.substs, out.substs)
      [] in.kind = "Dynamic" ->
            /\ out.kind = "Dynamic"
            /\ CleanRegion(in.region, out.region)
            /\ Len(out.preds) = Len(in.preds)
            /\ \A i \in 1..Len(in.preds) : CleanExPred(in.preds[i], out.preds[i])
      [] OTHER -> out = in

\* The regions a type mentions.
RegionsOfSubsts(substs) ==
    {substs[i].region : i \in {j \in 1..Len(substs) : substs[j].gk = "Lifetime"}}

RegionsOfTy(ty) ==
    UNION {CASE t.kind = "Ref" -> {t.region}
             [] t.kind \in {"Adt", "FnDef", "Opaque", "Projection"} -> RegionsOfSubsts(t.substs)
             [] t.kind = "Dynamic" ->
                    {t.region} \cup
                    UNION {IF t.preds[i].ek = "AutoTrait" THEN {}
                           ELSE RegionsOfSubsts(t.preds[i].substs) : i \in 1..Len(t.preds)}
             [] OTHER -> {} : t \in TypesOfTy(ty)}

NoPlaceholder(ty) ==
    /\ \A t \in TypesOfTy(ty) : t.kind # "Infer"
    /\ ReVar \notin RegionsOfTy(ty)

\* C8: inference cleanup always yields a type (or region); the output is the input with
\* each unresolved type variable replaced by the error type and each unresolved region by
\* the erased region, so it contains no unresolved variable.
C8_CleanupTotal ==
    /\ op = "fold_ty" =>
        /\ res.tag = "Some"
        /\ CleanedFrom(arg.ty, res.val)
        /\ NoPlaceholder(res.val)
    /\ op = "fold_region" =>
        /\ res.tag = "Some"
        /\ CleanRegion(arg.region, res.val)
        /\ res.val # ReVar

\* A nested input with an unresolved region and an unresolved type variable.
C8_Witness ==
    /\ op = "fold_ty"
    /\ arg.ty.kind \in {"Ref", "Adt"}
    /\ \E t \in TypesOfTy(arg.ty) : t.kind = "Infer" /\ t # arg.ty
    /\ ReVar \in RegionsOfTy(arg.ty)
    /\ res.tag = "Some"
    /\ res.val # arg.ty

-----------------------------------------------------------------------------
(* C9 *)

\* C9: a list returned for a predicate list has the length of the input, its i-th member
\* is the translation of the i-th input predicate and has its kind; "no result" is
\* returned exactly when some member has no translation.
C9_LengthAndOrder ==
    op = "translate_param_env" =>
        LET orig_preds == arg.param_env.caller_bounds
            index_map == construct_index_map(arg.item)
        IN /\ res.tag \in {"Some", "None"}
           /\ res.tag = "Some" =>
                /\ Len(res.val.caller_bounds) = Len(orig_preds)
                /\ \A i \in 1..Len(orig_preds) :
                    /\ Some(res.val.caller_bounds[i]) = translate_predicate(index_map, orig_preds[i])
                    /\ res.val.caller_bounds[i].pk = orig_preds[i].pk
           /\ res = None <=>
                \E i \in 1..Len(orig_preds) : translate_predicate(index_map, orig_preds[i]) = None

\* A list of two translatable predicates of different kinds, translated.
C9_Witness ==
    /\ op = "translate_param_env"
    /\ Len(arg.param_env.caller_bounds) = 2
    /\ arg.param_env.caller_bounds[1].pk # arg.param_env.caller_bounds[2].pk
    /\ res.tag = "Some"
    /\ res.val.caller_bounds # arg.param_env.caller_bounds

-----------------------------------------------------------------------------
(* C10 *)

\* The type parameters at the positions of an item's full parameter list.
TypeParamDefs(item) ==
    {FullParams(item)[i] : i \in {j \in 1..Len(FullParams(item)) :
                                    FullParams(item)[j].kind = "Type"}}

\* A type of the item that uses its bound type parameters directly: a parameter, a
\* reference to one, or a nominal type applied to some.
UsesParamsDirectly(item, ty) ==
    /\ ty.kind \in {"Param", "Ref", "Adt"}
    /\ \A t \in TypesOfTy(ty) \ {ty} : t.kind \in {"Param", "Prim"}
    /\ \E t \in TypesOfTy(ty) : t.kind = "Param" /\ t.index # 0

\* C10 (parameter-index stability): the index map of an item resolves the position of
\* every type parameter of its full parameter list, its own and those inherited from the
\* enclosing item, to the identifier of that parameter; the lookup for a non-zero bound
\* type-parameter index occurring in a type of the item therefore finds its entry.
C10_IndexMapComplete ==
    /\ op = "construct_index_map" =>
        \A def \in TypeParamDefs(arg.orig_def_id) :
            /\ def.index \in DOMAIN res.val
            /\ res.val[def.index] = def.def_id
    /\ op = "translate_item_type" =>
        \A t \in TypesOfTy(arg.ty) :
            (t.kind = "Param" /\ t.index # 0) =>
                /\ t.index \in DOMAIN construct_index_map(arg.item)
                /\ construct_index_map(arg.item)[t.index] = Id(arg.item.crate, t.name)
    /\ (op = "translate_item_type" /\ UsesParamsDirectly(arg.item, arg.ty)) =>
        res.tag = "Some"

\* The index map of a method with a parameter of its own and one inherited.
C10_Witness ==
    /\ op = "construct_index_map"
    /\ generics_of(arg.orig_def_id).parent # NoId
    /\ \E d \in TypeParamDefs(arg.orig_def_id) : ParamOwner(d.name) # arg.orig_def_id.name
    /\ \E d \in TypeParamDefs(arg.orig_def_id) : ParamOwner(d.name) = arg.orig_def_id.name
    /\ Cardinality(DOMAIN res.val) = 2

-----------------------------------------------------------------------------
(* C11 *)

\* The function item type built from the identifier and the given argument list when
\* translate_orig_substs succeeds on them, `otherwise` when it fails.
FnDefFrom(t, otherwise) ==
    IF t.tag = "Some" THEN Some(FnDef(t.val.def_id, t.val.substs)) ELSE Some(otherwise)

\* C11 (function item type rule): a function item type is translated from its identifier
\* and its original argument list, as given before the fold of its children, so that no
\* argument goes through the translator twice; when that fails the node is left as the
\* fold of its children made it.
C11_FnDefPreFold ==
    (op = "translate_item_type" /\ arg.ty.kind = "FnDef") =>
        res = FnDefFrom(translate_orig_substs(construct_index_map(arg.item),
                                              arg.ty.def_id, arg.ty.substs),
                        super_fold_ty(construct_index_map(arg.item), arg.ty))

-----------------------------------------------------------------------------
(* C12 *)

\* The source list has a type argument at the position of the parameter.
SourceTypeAt(def, orig_substs) ==
    def.index + 1 <= Len(orig_substs) /\ orig_substs[def.index + 1].gk = "Type"

\* The argument the fallback order gives for a type parameter of the target item.
FallbackArg(index_map, target_id, def, orig_substs) ==
    IF SourceTypeAt(def, orig_substs)
    THEN Some(TypeArg(translate_ty(index_map, orig_substs[def.index + 1].ty)))
    ELSE IF is_non_mapped_defaulted_type_param(def.def_id)
    THEN Some(TypeArg(type_of(def.def_id)))
    ELSE IF def.index = 0 /\ generics_of(target_id).has_self
    THEN Some(TypeArg(mk_param_from_def(def)))
    ELSE None

\* C12 (type-parameter fallback order): in a result of translate_orig_substs the argument
\* of each type parameter of the target item is (1) the translation of the source type
\* argument at its position if there is one, otherwise (2) the declared type of the
\* parameter if it is a non-mapped defaulted parameter, otherwise (3) the self placeholder
\* if the parameter has index 0 and the target has a self type; (4) a type parameter with
\* none of the three makes the call return None.
C12_FallbackOrder ==
    (op = "translate_orig_substs" /\ ~NoEntry(arg.orig_def_id)) =>
        LET target_id == TargetOf(arg.orig_def_id)
            index_map == construct_index_map(arg.item)
            params == FullParams(target_id)
            tps == {i \in 1..Len(params) : params[i].kind = "Type"}
        IN /\ res.tag = "Some" =>
                \A i \in tps :
                    Some(res.val.substs[i]) =
                        FallbackArg(index_map, target_id, params[i], arg.orig_substs)
           /\ (\E i \in tps :
                    FallbackArg(index_map, target_id, params[i], arg.orig_substs) = None)
                => res = None

\* A defaulted parameter with a source argument at its position: the source argument wins;
\* its translation differs from the default's declared type.
C12_Witness ==
    /\ op = "translate_orig_substs"
    /\ res.tag = "Some"
    /\ \E i \in 1..Len(FullParams(res.val.def_id)) :
        LET def == FullParams(res.val.def_id)[i] IN
        /\ def.kind = "Type"
        /\ is_non_mapped_defaulted_type_param(def.def_id)
        /\ SourceTypeAt(def, arg.orig_substs)
        /\ res.val.substs[i] # TypeArg(type_of(def.def_id))
        /\ res.val.substs[i] # TypeArg(arg.orig_substs[i].ty)

-----------------------------------------------------------------------------
(* C13 *)

\* The parameter of name n among the parameters of the item of crate c that declares it.
DeclaredParam(c, n) ==
    LET ps == generics_of(Id(c, ParamOwner(n))).params
    IN ps[CHOOSE i \in 1..Len(ps) : ps[i].name = n]

\* The identifier the index map of the item gives for a bound type parameter.
OwnerOf(item, t) == construct_index_map(item)[t.index]

\* The bound type parameter is one the folder replaces.
ParamReplaced(item, t) ==
    t.index # 0 /\ translate_params /\ OwnerOf(item, t).crate = SrcCrate

-----------------------------------------------------------------------------
(* C14 *)

\* Every trait-bound and projection predicate of the trait object has an identifier with
\* an entry in the mapping: the trait object is translated, not left as it was.
DynTranslated ==
    /\ op = "translate_item_type"
    /\ arg.ty.kind = "Dynamic"
    /\ \A i \in 1..Len(arg.ty.preds) :
        arg.ty.preds[i].ek \in {"Trait", "Projection"} => ~NoEntry(ExPredId(arg.ty.preds[i]))

\* C14 (existential projection keeps its equated type): in a translated trait object each
\* projection predicate equates the translated associated item to the translation of the
\* type the original predicate equated it to, with as many arguments as the original (the
\* placeholder self type stripped again).
C14_ProjectionKeepsTerm ==
    DynTranslated =>
        /\ res.tag = "Some"
        /\ res.val.kind = "Dynamic"
        /\ Len(res.val.preds) = Len(arg.ty.preds)
        /\ \A i \in 1..Len(arg.ty.preds) :
            arg.ty.preds[i].ek = "Projection" =>
                /\ res.val.preds[i].ek = "Projection"
                /\ res.val.preds[i].item_def_id = TargetOf(arg.ty.preds[i].item_def_id)
                /\ Len(res.val.preds[i].substs) = Len(arg.ty.preds[i].substs)
                /\ res.val.preds[i].term =
                    TermTy(translate_ty(construct_index_map(arg.item),
                                        arg.ty.preds[i].term.ty))

====
